---- MODULE Spec2Model ----
\* A model of nabib.py: the NABNumber money type, the category rules of an
\* Account, the normalisation of transaction rows, the QIF export and the
\* batch loop of main().
\*
\* Text is modelled as a sequence of one-character strings, so that stripping,
\* splitting and parsing are computed the way the code computes them.
EXTENDS Integers, Sequences, FiniteSets, TLC

VARIABLES
    \* ---- NABNumber(value): one construction from text
    n_value,      \* the argument of NABNumber.__new__ (a text, or None)
    n_result,     \* what the construction produced (a Decimal, or Raised)
    \* ---- NABNumber.__add__: one addition
    n_lhs, n_rhs, \* the operands
    n_sum,        \* the NABNumber returned
    \* ---- Account.payee_category_map and the categorisation loop of process_row
    rule_files,   \* the two candidate rule files on disk (None when absent)
    pcm,          \* Account._payee_category_map, in the dict's iteration order
    cat_field,    \* the payee and memo handed to the categorisation loop
    category,     \* the category it assigned
    \* ---- main(): the batch
    accounts,     \* index -> Account object (the mapping get_accounts returned)
    fetched,      \* index -> what the session showed for that account
    files,        \* index -> the account's export file on disk
    out_file,     \* the lines written to the closing-balances file
    closing_balances, \* main's dict: index -> value returned by generate_qif
    selected,     \* the keys main's loop runs over (options.account applied)
    invoked,      \* the accounts generate_qif was invoked for, in order
    raised,       \* the exception that ended main's try block ("" if none)
    pc,           \* where main() is: "loop", "finished", "failed"
    exports,      \* what each later evaluation of Account.qif gave, in order
    \* ---- Account.process_row: one row
    r_row,        \* the row the session shows
    r_result,     \* what process_row gave for it
    \* ---- MonthDate: the month properties of one date
    m_date,       \* the date
    m_props       \* its month_start, month_end, month_end_prev, month_prev, month_next

vars == <<n_value, n_result, n_lhs, n_rhs, n_sum, rule_files, pcm, cat_field,
          category, accounts, fetched, files, out_file, closing_balances,
          selected, invoked, raised, pc, exports, r_row, r_result, m_date,
          m_props>>

numVars == <<n_value, n_result>>
addVars == <<n_lhs, n_rhs, n_sum>>
catVars == <<rule_files, pcm, cat_field, category>>
batchVars == <<accounts, fetched, files, out_file, closing_balances, selected,
               invoked, raised, pc, exports>>
rowVars == <<r_row, r_result>>
monthVars == <<m_date, m_props>>

None == "None"
NoText == <<None>>    \* Python's None where a text is expected

\* --------------------------------------------------------------------------
\* Bounds
\* --------------------------------------------------------------------------
MaxTextLen == 3     \* every text over Alphabet up to this length is parsed
MaxSmallCents == 6  \* additions range over -MaxSmallCents..MaxSmallCents cents
MaxRows == 2        \* rows the session shows for one account
MaxRules == 2       \* rule lines in one rule file
NumAccounts == 2    \* accounts selected in a batch
MaxExports == 2     \* later evaluations of Account.qif on one account

\* --------------------------------------------------------------------------
\* Text helpers (str.strip, str.split, str.replace, re.sub of a character class)
\* --------------------------------------------------------------------------
Whitespace == {" ", "\n"}
Digits == {"0", "1", "2", "3", "4", "5", "6", "7", "8", "9"}

DigitValue(ch) ==
    CASE ch = "0" -> 0 [] ch = "1" -> 1 [] ch = "2" -> 2 [] ch = "3" -> 3
      [] ch = "4" -> 4 [] ch = "5" -> 5 [] ch = "6" -> 6 [] ch = "7" -> 7
      [] ch = "8" -> 8 [] ch = "9" -> 9

DigitChar(d) ==
    CASE d = 0 -> "0" [] d = 1 -> "1" [] d = 2 -> "2" [] d = 3 -> "3"
      [] d = 4 -> "4" [] d = 5 -> "5" [] d = 6 -> "6" [] d = 7 -> "7"
      [] d = 8 -> "8" [] d = 9 -> "9"

RECURSIVE LStrip(_)
LStrip(s) == IF s # <<>> /\ Head(s) \in Whitespace THEN LStrip(Tail(s)) ELSE s

RECURSIVE RStrip(_)
RStrip(s) ==
    IF s # <<>> /\ s[Len(s)] \in Whitespace
    THEN RStrip(SubSeq(s, 1, Len(s) - 1)) ELSE s

Strip(s) == RStrip(LStrip(s))

RECURSIVE RemoveChars(_, _)
RemoveChars(s, drop) ==
    IF s = <<>> THEN <<>>
    ELSE IF Head(s) \in drop THEN RemoveChars(Tail(s), drop)
    ELSE <<Head(s)>> \o RemoveChars(Tail(s), drop)

\* s.split(ch): the pieces between occurrences of ch (empty pieces kept)
RECURSIVE SplitOn(_, _)
SplitOn(s, ch) ==
    IF \A i \in 1..Len(s) : s[i] # ch THEN <<s>>
    ELSE LET i == CHOOSE j \in 1..Len(s) :
                      s[j] = ch /\ \A k \in 1..(j - 1) : s[k] # ch
         IN <<SubSeq(s, 1, i - 1)>> \o SplitOn(SubSeq(s, i + 1, Len(s)), ch)

RECURSIVE Concat(_)
Concat(ss) == IF ss = <<>> THEN <<>> ELSE Head(ss) \o Concat(Tail(ss))

StartsWith(s, p) == Len(s) >= Len(p) /\ SubSeq(s, 1, Len(p)) = p

\* s.replace(old, new), old non-empty
RECURSIVE Replace(_, _, _)
Replace(s, old, new) ==
    IF s = <<>> THEN <<>>
    ELSE IF StartsWith(s, old)
         THEN new \o Replace(SubSeq(s, Len(old) + 1, Len(s)), old, new)
         ELSE <<Head(s)>> \o Replace(Tail(s), old, new)

LowerChar(ch) ==
    CASE ch = "A" -> "a" [] ch = "C" -> "c" [] ch = "D" -> "d"
      [] ch = "E" -> "e" [] ch = "F" -> "f" [] ch = "N" -> "n"
      [] ch = "O" -> "o" [] ch = "R" -> "r" [] ch = "S" -> "s"
      [] ch = "H" -> "h" [] ch = "P" -> "p" [] ch = "X" -> "x"
      [] ch = "J" -> "j" [] ch = "M" -> "m" [] ch = "Y" -> "y"
      [] ch = "B" -> "b" [] ch = "G" -> "g" [] ch = "L" -> "l"
      [] ch = "T" -> "t" [] ch = "U" -> "u" [] ch = "V" -> "v"
      [] OTHER -> ch

Lower(s) == [i \in 1..Len(s) |-> LowerChar(s[i])]

RECURSIVE Pow10(_)
Pow10(n) == IF n <= 0 THEN 1 ELSE 10 * Pow10(n - 1)

RECURSIVE DigitsValue(_)
DigitsValue(s) ==
    IF s = <<>> THEN 0
    ELSE 10 * DigitsValue(SubSeq(s, 1, Len(s) - 1)) + DigitValue(s[Len(s)])

RECURSIVE NatText(_)
NatText(n) ==
    IF n < 10 THEN <<DigitChar(n)>>
    ELSE NatText(n \div 10) \o <<DigitChar(n % 10)>>

RECURSIVE NumDigits(_)
NumDigits(n) == IF n < 10 THEN 1 ELSE 1 + NumDigits(n \div 10)

Abs(n) == IF n < 0 THEN -n ELSE n

\* --------------------------------------------------------------------------
\* decimal.Decimal values: c * 10^e with c a signed coefficient (neg0 marks
\* the zero that carries a minus sign), or NaN
\* --------------------------------------------------------------------------
NaN == [k |-> "nan", c |-> 0, e |-> 0, neg0 |-> FALSE]
Raised == [k |-> "raise", c |-> 0, e |-> 0, neg0 |-> FALSE]   \* decimal.InvalidOperation
Dec(c, e) == [k |-> "num", c |-> c, e |-> e, neg0 |-> FALSE]
NegZero(e) == [k |-> "num", c |-> 0, e |-> e, neg0 |-> TRUE]

IsNaN(d) == d.k = "nan"          \* math.isnan
IsNum(d) == d.k = "num"

\* the value in units of 10^-scale (scale at least -d.e)
Scaled(d, scale) == d.c * Pow10(d.e + scale)

\* numeric equality of two finite Decimals
NumEq(a, b) ==
    LET s == IF -a.e > -b.e THEN -a.e ELSE -b.e
        t == IF s < 0 THEN 0 ELSE s
    IN Scaled(a, t) = Scaled(b, t)

IsZero(d) == IsNum(d) /\ d.c = 0

\* decimal.Decimal.__new__ on a string: strip, then
\*   [-+]? ( digits [. digits] | . digits | NaN digits* ), case-insensitive.
\* Anything else is a ConversionSyntax, which the context traps
\* (decimal.Context() keeps DefaultContext's trap on InvalidOperation).
\* The texts ranged over carry no exponent and no Infinity literal.
DecimalNew(text) ==
    LET s == Strip(text)
        signed == s # <<>> /\ Head(s) \in {"-", "+"}
        neg == s # <<>> /\ Head(s) = "-"
        body == IF signed THEN Tail(s) ELSE s
        parts == SplitOn(body, ".")
        intp == parts[1]
        frac == IF Len(parts) >= 2 THEN parts[2] ELSE <<>>
        allDigits(x) == \A i \in 1..Len(x) : x[i] \in Digits
        numeric == /\ Len(parts) <= 2
                   /\ allDigits(intp) /\ allDigits(frac)
                   /\ Len(intp) + Len(frac) >= 1
        low == Lower(body)
        nan == /\ Len(low) >= 3
               /\ SubSeq(low, 1, 3) = <<"n", "a", "n">>
               /\ allDigits(SubSeq(low, 4, Len(low)))
        mag == DigitsValue(intp \o frac)
    IN IF numeric
       THEN (IF neg /\ mag = 0 THEN NegZero(-Len(frac))
             ELSE Dec(IF neg THEN -mag ELSE mag, -Len(frac)))
       ELSE IF nan THEN NaN
       ELSE Raised

\* --------------------------------------------------------------------------
\* NABNumber
\* --------------------------------------------------------------------------
\* The argument of a construction: None, a text, or a decimal.Decimal
NoneArg == [t |-> "none", s |-> <<>>, d |-> NaN]
TextArg(s) == [t |-> "text", s |-> s, d |-> NaN]
DecArg(d) == [t |-> "dec", s |-> <<>>, d |-> d]

T_NaN == <<"N", "a", "N">>
T_NA == <<"N", "/", "A">>
T_DR == <<"D", "R">>
T_MINUS == <<"-", "m", "i", "n", "u", "s">>

\* the text NABNumber.__new__ hands to Decimal: line 103
\* (value or 'NaN'), its lines stripped and joined, [+,$] removed, stripped
CleanValue(arg) ==
    LET given == IF arg.t = "none" \/ arg.s = <<>> THEN T_NaN ELSE arg.s
        lines == SplitOn(given, "\n")
        joined == Concat([i \in 1..Len(lines) |-> Strip(lines[i])])
    IN Strip(RemoveChars(joined, {"+", ",", "$"}))

\* lines 104-109: the text converted
ConvertValue(value) ==
    LET parts == SplitOn(value, " ") \o <<<<>>>>
        number == Replace(parts[1], T_MINUS, <<"-">>)
        dorc == parts[2]
    IN IF value \in {T_NA, <<>>} THEN T_NaN
       ELSE (IF dorc = T_DR THEN <<"-">> ELSE <<>>) \o number

\* A mutant of NABNumber: the sentinels N/A and '' are read as zero
NABNumberSentinelZero(arg) ==
    IF arg.t = "dec" THEN arg.d
    ELSE LET value == CleanValue(arg)
         IN IF value \in {T_NA, <<>>} \/ arg.t = "none" \/ arg.s = <<>>
            THEN Dec(0, 0)
            ELSE DecimalNew(ConvertValue(value))

\* NABNumber.__new__
NABNumber(arg) ==
    IF arg.t = "dec" THEN arg.d
    ELSE DecimalNew(ConvertValue(CleanValue(arg)))

\* Decimal._fix under DECIMAL_CONTEXT: at most ContextPrec significant
\* digits, the rest rounded off ROUND_HALF_DOWN
ContextPrec == 2

Fix(d) ==
    LET mag == Abs(d.c)
        nd == NumDigits(mag)
        shift == nd - ContextPrec
        q == mag \div Pow10(shift)
        r == mag % Pow10(shift)
        up == IF 2 * r > Pow10(shift) THEN 1 ELSE 0
        q1 == q + up
        carried == NumDigits(q1) > ContextPrec
        coeff == IF carried THEN q1 \div 10 ELSE q1
        exp == IF carried THEN d.e + shift + 1 ELSE d.e + shift
    IN IF nd <= ContextPrec THEN d
       ELSE Dec(IF d.c < 0 THEN -coeff ELSE coeff, exp)

\* decimal.Decimal.__add__ in the current context: the exact sum at the
\* smaller exponent, then _fix; a NaN operand gives NaN; the sum of two
\* negative zeros is a negative zero
DecimalAdd(a, b) ==
    IF IsNaN(a) \/ IsNaN(b) THEN NaN
    ELSE LET exp == IF a.e < b.e THEN a.e ELSE b.e
             sum == a.c * Pow10(a.e - exp) + b.c * Pow10(b.e - exp)
         IN IF a.neg0 /\ b.neg0 THEN NegZero(exp) ELSE Fix(Dec(sum, exp))

\* NABNumber.__add__
Add(a, b) == NABNumber(DecArg(DecimalAdd(a, b)))

\* Decimal._rescale(-2, ROUND_HALF_DOWN): the value in cents
Cents(d) ==
    IF d.e >= -2 THEN d.c * Pow10(d.e + 2)
    ELSE LET shift == -2 - d.e
             mag == Abs(d.c)
             q == mag \div Pow10(shift)
             r == mag % Pow10(shift)
             q1 == IF 2 * r > Pow10(shift) THEN q + 1 ELSE q
         IN IF d.c < 0 THEN -q1 ELSE q1

RECURSIVE PadLeft(_, _)
PadLeft(s, width) == IF Len(s) >= width THEN s ELSE PadLeft(<<" ">> \o s, width)

\* NABNumber.__str__: '{:6.2f}'.format(self)
Str(d) ==
    IF IsNaN(d) THEN PadLeft(T_NaN, 6)
    ELSE LET cents == Cents(d)
             mag == Abs(cents)
             sign == IF d.c < 0 \/ d.neg0 THEN <<"-">> ELSE <<>>
             body == NatText(mag \div 100) \o <<".">>
                     \o <<DigitChar((mag % 100) \div 10), DigitChar(mag % 10)>>
         IN PadLeft(sign \o body, 6)

Zeros(n) == [i \in 1..n |-> "0"]

\* '{}'.format(d), which is Decimal.__format__ with an empty specifier (type
\* 'g'): every digit of the coefficient, the point where the exponent puts
\* it, scientific notation for a positive exponent or a very small value.
\* NABNumber.__str__ plays no part in it.
Format(d) ==
    IF IsNaN(d) THEN T_NaN
    ELSE LET digits == NatText(Abs(d.c))
             n == Len(digits)
             left == d.e + n
             dot == IF d.e <= 0 /\ left > -6 THEN left ELSE 1
             sign == IF d.c < 0 \/ d.neg0 THEN <<"-">> ELSE <<>>
             intp == IF dot <= 0 THEN <<"0">>
                     ELSE IF dot >= n THEN digits \o Zeros(dot - n)
                     ELSE SubSeq(digits, 1, dot)
             frac == IF dot <= 0 THEN <<".">> \o Zeros(-dot) \o digits
                     ELSE IF dot >= n THEN <<>>
                     ELSE <<".">> \o SubSeq(digits, dot + 1, n)
             exp == IF left = dot THEN <<>>
                    ELSE <<"E", IF left < dot THEN "-" ELSE "+">>
                         \o NatText(Abs(left - dot))
         IN sign \o intp \o frac \o exp


\* --------------------------------------------------------------------------
\* Idle values of the variables a specification leaves alone
\* --------------------------------------------------------------------------
UnsetDec == [k |-> "unset", c |-> 0, e |-> 0, neg0 |-> FALSE]

NumIdle == n_value = NoneArg /\ n_result = UnsetDec
AddIdle == n_lhs = NaN /\ n_rhs = NaN /\ n_sum = UnsetDec

\* --------------------------------------------------------------------------
\* SpecNumber: NABNumber(value) over texts
\* --------------------------------------------------------------------------
Alphabet == {"0", "1", ".", "-", " ", "D", "R", "N", "/", "A", "x", "$", "\n"}

AllTexts(n) == UNION {[1..k -> Alphabet] : k \in 0..n}

CuratedTexts ==
    { <<"1", "2", "0", ".", "0", "0", " ", "D", "R">>,
      <<"1", "2", "0", ".", "0", "0">>,
      <<"$", "1", ",", "2", "3", "4", ".", "5", "6">>,
      <<"+", "5", "0", ".", "0", "0">>,
      <<"-", "m", "i", "n", "u", "s", "5", ".", "0", "0">>,
      <<"N", "/", "A", " ", "D", "R">>,
      <<"N", "a", "N">>,
      <<"0", ".", "0", "0">>,
      <<"1", "2", ".", "5", "x">>,
      <<"x", "x", " ", "D", "R">>,
      <<" ", "N", "/", "A", "\n">> }

NumberArgs ==
    {NoneArg} \cup {TextArg(t) : t \in CuratedTexts \cup AllTexts(MaxTextLen)}

InitNumber ==
    /\ n_value \in NumberArgs
    /\ n_result = UnsetDec

\* value = NABNumber(text)
Construct ==
    /\ n_result = UnsetDec
    /\ n_result' = NABNumber(n_value)
    /\ UNCHANGED n_value

\* --------------------------------------------------------------------------
\* SpecAdd: a + b over NABNumbers
\* --------------------------------------------------------------------------
LargeCents == {50, 150, 995, 12000, -12000, 99999}

Amounts ==
    {NaN} \cup {Dec(c, -2) : c \in (-MaxSmallCents..MaxSmallCents) \cup LargeCents}

InitAdd ==
    /\ n_lhs \in Amounts
    /\ n_rhs \in Amounts
    /\ n_sum = UnsetDec

\* total = a + b
AddNumbers ==
    /\ n_sum = UnsetDec
    /\ n_sum' = Add(n_lhs, n_rhs)
    /\ UNCHANGED <<n_lhs, n_rhs>>


\* --------------------------------------------------------------------------
\* Category rules: Account.payee_category_map and the loop of process_row
\* --------------------------------------------------------------------------
NoFile == <<[blank |-> TRUE, payee |-> <<>>, category |-> "<absent>"]>>  \* os.path.isfile is false

\* one line of a rule file: blank, or 'payee|category'
BlankLine == [blank |-> TRUE, payee |-> <<>>, category |-> ""]
RuleLine(p, c) == [blank |-> FALSE, payee |-> p, category |-> c]

\* the lines of the files that exist, in the order the loop reads them:
\* PayeeCategories-<nick>.txt, then PayeeCategories.txt (no break between)
LinesRead(rf) ==
    (IF rf.specific = NoFile THEN <<>> ELSE rf.specific)
    \o (IF rf.shared = NoFile THEN <<>> ELSE rf.shared)

\* self._payee_category_map[payee] = category, line after line: the keys of
\* the dict and, for each, the category of the last line that set it
DictKeys(lines) == {lines[i].payee : i \in {j \in 1..Len(lines) : ~lines[j].blank}}

DictValue(lines, key) ==
    LET last == CHOOSE i \in 1..Len(lines) :
                    /\ ~lines[i].blank /\ lines[i].payee = key
                    /\ \A j \in (i + 1)..Len(lines) :
                           lines[j].blank \/ lines[j].payee # key
    IN lines[last].category

\* dict.items() of a Python 2 dict: the items in an order the hash table
\* decides, which is any order as far as the rule file is concerned
ItemOrders(lines) ==
    LET keys == DictKeys(lines)
        n == Cardinality(keys)
    IN { [i \in 1..n |-> [payee |-> f[i], category |-> DictValue(lines, f[i])]] :
           f \in {g \in [1..n -> keys] : \A a, b \in 1..n : a # b => g[a] # g[b]} }

\* s contains sub
Contains(s, sub) ==
    \E i \in 0..(Len(s) - Len(sub)) : SubSeq(s, i + 1, i + Len(sub)) = sub

\* re.match(r'^.*{}.*'.format(re_key), field or '', re.IGNORECASE), for a key
\* without regex metacharacters and a one-line field
Matches(re_key, field) ==
    Contains(Lower(IF field = NoText THEN <<>> ELSE field), Lower(re_key))

\* lines 395-403 and the default of line 405: payee first, then memo; within
\* a field, the first item of the dict's iteration that matches
FirstMatch(items, field) ==
    IF \E i \in 1..Len(items) : Matches(items[i].payee, field)
    THEN LET i == CHOOSE j \in 1..Len(items) :
                      /\ Matches(items[j].payee, field)
                      /\ \A k \in 1..(j - 1) : ~Matches(items[k].payee, field)
         IN items[i].category
    ELSE "<none>"

Categorise(items, payee, memo) ==
    IF FirstMatch(items, payee) # "<none>" THEN FirstMatch(items, payee)
    ELSE IF FirstMatch(items, memo) # "<none>" THEN FirstMatch(items, memo)
    ELSE "Unspecified"


\* --------------------------------------------------------------------------
\* SpecCategory: the rules of one Account and the category of one transaction
\* --------------------------------------------------------------------------
T_caf == <<"c", "a", "f">>
T_shop == <<"s", "h", "o", "p">>
T_CAF == <<"C", "A", "F">>
T_Shop == <<"S", "h", "o", "p">>
T_CafShop == <<"C", "a", "f", " ", "S", "h", "o", "p">>

LineKinds ==
    { BlankLine, RuleLine(T_caf, "Dining"), RuleLine(T_shop, "Retail"),
      RuleLine(T_caf, "Leisure") }

RuleFileContents == {NoFile} \cup UNION {[1..k -> LineKinds] : k \in 0..MaxRules}

FieldPairs ==
    [payee : {NoText, T_CAF, T_CafShop}, memo : {<<>>, T_Shop, T_CafShop}]

NotLoaded == <<[payee |-> <<>>, category |-> "<not loaded>"]>>
NoFields == [payee |-> NoText, memo |-> <<>>]

CatIdle ==
    /\ rule_files = [specific |-> NoFile, shared |-> NoFile]
    /\ pcm = NotLoaded
    /\ cat_field = NoFields
    /\ category = ""

InitCategory ==
    /\ rule_files \in [specific : RuleFileContents, shared : RuleFileContents]
    /\ pcm = NotLoaded
    /\ cat_field \in FieldPairs
    /\ category = ""

\* the first read of self.payee_category_map
LoadRules ==
    /\ pcm = NotLoaded
    /\ pcm' \in ItemOrders(LinesRead(rule_files))
    /\ UNCHANGED <<rule_files, cat_field, category>>

\* the categorisation loop of process_row
CategoriseRow ==
    /\ pcm # NotLoaded
    /\ category = ""
    /\ category' = Categorise(pcm, cat_field.payee, cat_field.memo)
    /\ UNCHANGED <<rule_files, pcm, cat_field>>

\* --------------------------------------------------------------------------
\* MonthDate.strptime(value, '%d %b %y')
\* --------------------------------------------------------------------------
MonthAbbr ==
    << <<"j", "a", "n">>, <<"f", "e", "b">>, <<"m", "a", "r">>, <<"a", "p", "r">>,
       <<"m", "a", "y">>, <<"j", "u", "n">>, <<"j", "u", "l">>, <<"a", "u", "g">>,
       <<"s", "e", "p">>, <<"o", "c", "t">>, <<"n", "o", "v">>, <<"d", "e", "c">> >>

IsLeap(y) == (y % 4 = 0 /\ y % 100 # 0) \/ y % 400 = 0

DaysInMonth(y, m) ==
    IF m = 2 THEN (IF IsLeap(y) THEN 29 ELSE 28)
    ELSE IF m \in {4, 6, 9, 11} THEN 30 ELSE 31

Date(y, m, d) == [ok |-> TRUE, y |-> y, m |-> m, d |-> d]
BadDate == [ok |-> FALSE, y |-> 0, m |-> 0, d |-> 0]   \* ValueError

\* %d %b %y: one or two digits of day (or a space and one digit), a month
\* abbreviation in any case and two digits of year, separated by whitespace,
\* with nothing after the year
Strptime(text) ==
    LET tok == SelectSeq(SplitOn(text, " "), LAMBDA t : t # <<>>)
        allDigits(x) == \A i \in 1..Len(x) : x[i] \in Digits
        lead == Len(text) - Len(LStrip(text))
        shaped == /\ Len(tok) = 3
                  /\ text[Len(text)] # " "
                  /\ Len(tok[1]) \in {1, 2} /\ allDigits(tok[1])
                  /\ lead = 0 \/ (lead = 1 /\ Len(tok[1]) = 1)
                  /\ \E m \in 1..12 : MonthAbbr[m] = Lower(tok[2])
                  /\ Len(tok[3]) = 2 /\ allDigits(tok[3])
        day == DigitsValue(tok[1])
        mon == CHOOSE m \in 1..12 : MonthAbbr[m] = Lower(tok[2])
        yy == DigitsValue(tok[3])
        year == IF yy >= 69 THEN 1900 + yy ELSE 2000 + yy
    IN IF shaped /\ day >= 1 /\ day <= DaysInMonth(year, mon)
       THEN Date(year, mon, day)
       ELSE BadDate

\* --------------------------------------------------------------------------
\* MonthDate: the month properties, by datetime.date arithmetic
\* --------------------------------------------------------------------------
DateYears == 1..9999     \* datetime.MINYEAR .. datetime.MAXYEAR

\* OverflowError: date value out of range
DateOverflow == [ok |-> FALSE, y |-> -1, m |-> 0, d |-> 0]

\* date + timedelta(days=1) and date - timedelta(days=1)
NextDay(dt) ==
    IF ~dt.ok THEN dt
    ELSE IF dt.d < DaysInMonth(dt.y, dt.m) THEN Date(dt.y, dt.m, dt.d + 1)
    ELSE IF dt.m < 12 THEN Date(dt.y, dt.m + 1, 1)
    ELSE IF dt.y + 1 \in DateYears THEN Date(dt.y + 1, 1, 1)
    ELSE DateOverflow

PrevDay(dt) ==
    IF ~dt.ok THEN dt
    ELSE IF dt.d > 1 THEN Date(dt.y, dt.m, dt.d - 1)
    ELSE IF dt.m > 1 THEN Date(dt.y, dt.m - 1, DaysInMonth(dt.y, dt.m - 1))
    ELSE IF dt.y - 1 \in DateYears THEN Date(dt.y - 1, 12, 31)
    ELSE DateOverflow

\* date + datetime.timedelta(days=n)
RECURSIVE PlusDays(_, _)
PlusDays(dt, n) ==
    IF n = 0 THEN dt
    ELSE IF n > 0 THEN PlusDays(NextDay(dt), n - 1)
    ELSE PlusDays(PrevDay(dt), n + 1)

\* MonthDate.month_start
MonthStart(dt) == IF dt.ok THEN Date(dt.y, dt.m, 1) ELSE dt

\* MonthDate.month_end_prev
MonthEndPrev(dt) == PlusDays(MonthStart(dt), -1)

\* MonthDate.month_prev
MonthPrev(dt) == MonthStart(PlusDays(MonthStart(dt), -1))

\* A mutant of MonthNext: thirty days are added to the start of the month
MonthNextThirty(dt) == MonthStart(PlusDays(MonthStart(dt), 30))

\* MonthDate.month_next
MonthNext(dt) == MonthStart(PlusDays(MonthStart(dt), 31))

\* MonthDate.month_end
MonthEnd(dt) == MonthEndPrev(MonthNext(dt))

\* --------------------------------------------------------------------------
\* SpecMonth: the month properties of one date
\* --------------------------------------------------------------------------
\* the first and last years of the calendar, a century year that is no leap
\* year, one that is, a common year and a leap year
SampleYears == {1, 2, 1900, 2000, 2023, 2024, 9998, 9999}

SampleDates ==
    {dt \in [ok : {TRUE}, y : SampleYears, m : 1..12, d : 1..31] :
       dt.d <= DaysInMonth(dt.y, dt.m)}

NoProps ==
    [start |-> BadDate, end |-> BadDate, end_prev |-> BadDate, prev |-> BadDate,
     next |-> BadDate]

MonthIdle == m_date = BadDate /\ m_props = NoProps

InitMonth ==
    /\ m_date \in SampleDates
    /\ m_props = NoProps

\* the five properties read off one MonthDate
MonthProperties ==
    /\ m_props = NoProps
    /\ m_props' = [start |-> MonthStart(m_date), end |-> MonthEnd(m_date),
                   end_prev |-> MonthEndPrev(m_date), prev |-> MonthPrev(m_date),
                   next |-> MonthNext(m_date)]
    /\ UNCHANGED m_date

\* --------------------------------------------------------------------------
\* Transaction rows: Account.process_row
\* --------------------------------------------------------------------------
NumVarNames == 5    \* date, details, debit, credit, balance

NoDate == [ok |-> FALSE, y |-> 0, m |-> 0, d |-> 0]

\* what process_row gives: a Transaction, None (row skipped), or an exception
Trans(date, type, payee, memo, amount, cat, balance) ==
    [k |-> "trans", exc |-> "", date |-> date, type |-> type,
     reference |-> None, payee |-> payee, memo |-> memo, amount |-> amount,
     category |-> cat, balance |-> balance]
NoneRow ==
    [k |-> "none", exc |-> "", date |-> NoDate, type |-> "",
     reference |-> None, payee |-> NoText, memo |-> <<>>, amount |-> NaN,
     category |-> "", balance |-> NaN]
RaiseRow(exc) == [NoneRow EXCEPT !.k = "raise", !.exc = exc]

\* the literal texts line 394 removes from the memo (str.replace, not re.sub)
P_TIME == <<"^", ".", "*", "[", "0", "-", "9", "]", "[", "0", "-", "9", "]", ":",
            "[", "0", "-", "9", "]", "[", "0", "-", "9", "]", " ">>
P_BPAY == <<"^", "I", "N", "T", "E", "R", "N", "E", "T", " ", "B", "P", "A", "Y",
            " ", "*">>
P_TRANSFER == <<"^", "I", "N", "T", "E", "R", "N", "E", "T", " ", "T", "R", "A",
                "N", "S", "F", "E", "R", " ", "*">>
P_FEES == <<"^", "F", "E", "E", "S", " ", "*">>

PayeeOf(memo) ==
    IF memo = <<>> THEN NoText
    ELSE Replace(Replace(Replace(Replace(memo, P_TIME, <<>>), P_BPAY, <<>>),
                         P_TRANSFER, <<>>), P_FEES, <<>>)

\* re.split(r'   *', text, 1) finds a run of two or more spaces
HasSpaceRun(s) == \E i \in 1..(Len(s) - 1) : s[i] = " " /\ s[i + 1] = " "

\* lines 365-405, once the cells have been read and converted
RowResult(nvars, row, items, memo, debit, credit, balance, date) ==
    IF row.cells < nvars THEN NoneRow                          \* 365-367
    ELSE IF HasSpaceRun(memo) THEN RaiseRow("ValueError")      \* 370: unpack
    ELSE IF debit = Raised \/ credit = Raised
         THEN RaiseRow("InvalidOperation")                     \* 378-379
    ELSE IF nvars < NumVarNames THEN RaiseRow("KeyError")      \* 382
    ELSE IF balance = Raised THEN RaiseRow("InvalidOperation") \* 387
    ELSE IF ~date.ok THEN RaiseRow("ValueError")               \* 405
    ELSE Trans(date, row.type, PayeeOf(memo), memo,
               IF ~IsNaN(debit) THEN debit                     \* 389-393
               ELSE IF ~IsNaN(credit) THEN credit
               ELSE Dec(0, -2),
               Categorise(items, PayeeOf(memo), memo), balance)

\* line 378: the debit text gets a leading '-', an absent one reads 'NaN'
DebitArg(cell) ==
    IF cell.t = "none" \/ cell.s = <<>> THEN TextArg(T_NaN)
    ELSE TextArg(<<"-">> \o cell.s)

\* lines 380-385: the balance text without its prefix label
BalanceArg(row) ==
    TextArg(IF row.prefix = <<>> THEN row.balance
            ELSE Replace(row.balance, row.prefix, <<>>))

\* Account.process_row
ProcessRow(nvars, row, items) ==
    RowResult(nvars, row, items, Strip(row.narrative),
              NABNumber(DebitArg(row.debit)), NABNumber(row.credit),
              NABNumber(BalanceArg(row)), Strptime(row.date))

\* --------------------------------------------------------------------------
\* Account
\* --------------------------------------------------------------------------
NoDec == [k |-> "none", c |-> 0, e |-> 0, neg0 |-> FALSE]       \* None where a number may be

Today == Date(2024, 2, 2)      \* datetime.date.today() of the run
EndDate == Date(2024, 1, 31)   \* options.end_date

RECURSIVE Reverse(_)
Reverse(s) == IF s = <<>> THEN <<>> ELSE Reverse(Tail(s)) \o <<Head(s)>>

\* Account.__init__
NewAccount(nick_name, opening_balance, available_balance, at_date) ==
    [ nick_name |-> nick_name,
      var_names |-> NumVarNames,
      current_balance |-> opening_balance,
      available_balance |-> IF available_balance # NoDec /\ ~IsZero(available_balance)
                            THEN available_balance ELSE opening_balance,
      at_date |-> at_date,
      closing_balance |-> NABNumber(TextArg(<<"0", ".", "0", "0">>)),
      closing_balance_date |-> Today,
      transactions |-> <<>> ]

\* what the session shows for one account: the page state and the rows
\*   "ok"          the Transaction History page with its table
\*   "alert"       the same, after the alert 'error 302033' was dismissed
\*   "wrong_title" another page
Pages == {"ok", "alert", "wrong_title"}

\* A mutant of Reversed: the rows are kept newest-first
NotReversed(s) == s

\* line 354: list(reversed(transactions))
Reversed(s) == Reverse(s)

\* lines 338-358, with var_names already popped and every row processed
Downloaded(popped, page, got, trs, end_date) ==
    LET bad == {i \in 1..Len(got) : got[i].k = "raise"}
        last == trs[Len(trs)]
        cb == IF last.k = "trans" THEN last.balance ELSE Dec(0, -2)
        cbd == IF last.k = "trans" THEN last.date ELSE end_date
    IN IF page = "wrong_title"                                     \* 338
       THEN [exc |-> "UnexpectedPageTitle", acct |-> popped, ret |-> NoDec]
       ELSE IF got = <<>>                                          \* 343-344
       THEN [exc |-> "", acct |-> popped, ret |-> Dec(0, -2)]
       ELSE IF bad # {}                                            \* 352-353
       THEN [exc |-> got[CHOOSE i \in bad : \A j \in bad : i <= j].exc,
             acct |-> popped, ret |-> NoDec]
       ELSE [exc |-> "",
             acct |-> [popped EXCEPT !.transactions = trs,         \* 354
                                     !.closing_balance = cb,       \* 356
                                     !.closing_balance_date = cbd],
             ret |-> cb]                                           \* 358

\* lines 336-337: the alert 'error 302033' pops the last of var_names
VarNamesAfter(acct, page) ==
    IF page = "alert" THEN acct.var_names - 1 ELSE acct.var_names

RowsProcessed(nvars, rows, items) ==
    [i \in 1..Len(rows) |-> ProcessRow(nvars, rows[i], items)]

\* Account.download_transactions, from the session's answer on
DownloadTransactions(acct, page, rows, items, end_date) ==
    Downloaded([acct EXCEPT !.var_names = VarNamesAfter(acct, page)], page,
               RowsProcessed(VarNamesAfter(acct, page), rows, items),
               Reversed(RowsProcessed(VarNamesAfter(acct, page), rows, items)),
               end_date)

\* Transaction.qif: the fields of one record block
TransQif(t) ==
    [D |-> t.date, T |-> Strip(Str(t.amount)), M |-> t.memo, N |-> t.type,
     P |-> t.payee, L |-> t.category]

\* Transaction.csv: the fields of one line
TransCsv(t) ==
    <<t.date, Strip(Str(t.amount)), t.memo, t.type, t.payee, t.category>>

T_0_00 == <<"0", ".", "0", "0">>

NoQif == [cb |-> <<>>, cbd |-> NoDate, blocks |-> <<>>]

\* A mutant of ClosingLine: the closing balance is printed as it is
ClosingLineAsIs(cb) == Format(cb)

\* line 280: cb=('0.00' if math.isnan(self.closing_balance) else
\* self.closing_balance), put into the text by '{cb}'.format
ClosingLine(cb) == IF IsNaN(cb) THEN T_0_00 ELSE Format(cb)

\* A mutant of StartBalance: the export starts from the available balance
StartBalanceAvailable(acct) == acct.available_balance

\* A mutant of StartBalance: the export starts from zero
StartBalanceZero(acct) == Dec(0, -2)

\* line 267: self.closing_balance = self.current_balance
StartBalance(acct) == acct.current_balance

\* the index of the first None among the transactions, or one past the end
FirstNone(trs) ==
    IF \A i \in 1..Len(trs) : trs[i].k # "none" THEN Len(trs) + 1
    ELSE CHOOSE i \in 1..Len(trs) :
             trs[i].k = "none" /\ \A j \in 1..(i - 1) : trs[j].k # "none"

\* A mutant of QifWalked: the walk takes the transactions off the list
QifWalkedConsuming(acct, trs, stop, cb, cbd) ==
    IF stop <= Len(trs)
    THEN [exc |-> "AttributeError",
          acct |-> [acct EXCEPT !.closing_balance = cb, !.closing_balance_date = cbd],
          text |-> NoQif]
    ELSE [exc |-> "",
          acct |-> [acct EXCEPT !.closing_balance = cb, !.closing_balance_date = cbd,
                                !.transactions = <<>>],
          text |-> [cb |-> ClosingLine(cb),
                    cbd |-> cbd,
                    blocks |-> [i \in 1..Len(trs) |-> TransQif(trs[i])]]]

\* lines 267-282, the walk having stopped at index stop with closing balance
\* cb and closing date cbd
QifWalked(acct, trs, stop, cb, cbd) ==
    IF stop <= Len(trs)
    THEN [exc |-> "AttributeError",
          acct |-> [acct EXCEPT !.closing_balance = cb, !.closing_balance_date = cbd],
          text |-> NoQif]
    ELSE [exc |-> "",
          acct |-> [acct EXCEPT !.closing_balance = cb, !.closing_balance_date = cbd],
          text |-> [cb |-> ClosingLine(cb),                               \* 280
                    cbd |-> cbd,
                    blocks |-> [i \in 1..Len(trs) |-> TransQif(trs[i])]]]

QifFrom(acct, trs, stop) ==
    QifWalked(acct, trs, stop,
              IF stop = 1 THEN StartBalance(acct) ELSE trs[stop - 1].balance,
              IF stop = 1 THEN acct.at_date ELSE trs[stop - 1].date)

\* Account.qif: the property sets closing_balance and closing_balance_date as
\* it walks the transactions, and stops at the first None ('NoneType' object
\* has no attribute 'qif')
Qif(acct) == QifFrom(acct, acct.transactions, FirstNone(acct.transactions))

\* the export file of an account on disk
AbsentFile == [state |-> "absent", text |-> NoQif]
TruncatedFile == [state |-> "truncated", text |-> NoQif]   \* opened 'w', nothing written
WrittenFile(text) == [state |-> "written", text |-> text]

\* lines 412-414: open(output_file, 'w'), then print self.qif into it
Exported(d, q) ==
    IF q.exc # ""                           \* raised inside 'with open(.., "w")'
    THEN [exc |-> q.exc, acct |-> q.acct, file |-> TruncatedFile, ret |-> NoDec]
    ELSE [exc |-> "", acct |-> q.acct, file |-> WrittenFile(q.text), ret |-> d.ret]

AfterDownload(file, d) ==
    IF d.exc # ""                                                  \* 411 raised
    THEN [exc |-> d.exc, acct |-> d.acct, file |-> file, ret |-> NoDec]
    ELSE Exported(d, Qif(d.acct))

\* Account.generate_qif
GenerateQif(acct, file, page, rows, items, end_date) ==
    AfterDownload(file, DownloadTransactions(acct, page, rows, items, end_date))

\* --------------------------------------------------------------------------
\* The rows a session may show
\* --------------------------------------------------------------------------
Row(cells, date, narrative, type, debit, credit, balance) ==
    [cells |-> cells, date |-> date, narrative |-> narrative, type |-> type,
     debit |-> debit, credit |-> credit, balance |-> balance, prefix |-> <<>>]

T_15Jan24 == <<"1", "5", " ", "J", "a", "n", " ", "2", "4">>
T_10Jan24 == <<"1", "0", " ", "J", "a", "n", " ", "2", "4">>
T_xJan24 == <<"x", " ", "J", "a", "n", " ", "2", "4">>
T_Pay == <<"P", "a", "y">>
T_50 == <<"5", "0", ".", "0", "0">>
T_100 == <<"1", "0", "0", ".", "0", "0">>
T_150 == <<"1", "5", "0", ".", "0", "0">>
T_200 == <<"2", "0", "0", ".", "0", "0">>
T_x00 == <<"x", ".", "0", "0">>

\* a debit of 50.00 on 15 Jan 24, balance 100.00
RowDebit == Row(5, T_15Jan24, T_CafShop, "EFTPOS", TextArg(T_50), NoneArg, T_100)
\* a credit of 200.00 on 10 Jan 24, balance 150.00
RowCredit == Row(5, T_10Jan24, T_Pay, "TRANSFER", NoneArg, TextArg(T_200), T_150)
\* a row with a single cell
RowShort == Row(1, <<>>, <<>>, "", NoneArg, NoneArg, <<>>)
\* a row whose date cannot be parsed
RowBadDate == Row(5, T_xJan24, T_Pay, "TRANSFER", NoneArg, TextArg(T_200), T_150)
\* a row whose credit cannot be parsed
RowBadAmount == Row(5, T_10Jan24, T_Pay, "TRANSFER", NoneArg, TextArg(T_x00), T_150)
\* a row whose balance cell reads N/A
RowNoBalance == Row(5, T_10Jan24, T_Pay, "TRANSFER", NoneArg, TextArg(T_200), T_NA)

RawRows == {RowDebit, RowCredit, RowShort, RowBadDate, RowBadAmount, RowNoBalance}

RowSeqs == UNION {[1..k -> RawRows] : k \in 0..MaxRows}

IsShort(row) == row.cells < NumVarNames
MalformedDate(row) == ~Strptime(row.date).ok
MalformedAmount(row) ==
    \/ row.debit.t = "text" /\ NABNumber(row.debit) = Raised
    \/ row.credit.t = "text" /\ NABNumber(row.credit) = Raised
    \/ NABNumber(TextArg(row.balance)) = Raised

\* the rule files beside the script during a batch: the shared file only
BatchRuleFiles ==
    [specific |-> NoFile, shared |-> <<RuleLine(T_caf, "Dining")>>]

BatchRules ==
    /\ rule_files = BatchRuleFiles
    /\ pcm = <<[payee |-> T_caf, category |-> "Dining"]>>
    /\ cat_field = NoFields
    /\ category = ""

NotShown == [shown |-> FALSE, page |-> "", rows |-> <<>>]

\* --------------------------------------------------------------------------
\* SpecRow: process_row on one row of the table
\* --------------------------------------------------------------------------
T_Merchant == <<"S", "O", "M", "E", "M", "E", "R", "C", "H", "A", "N", "T",
                " ", " ", " ", "C", "O", "F", "F", "E", "E", " ", "S", "H", "O", "P">>
T_A_B_C == <<"A", " ", " ", "B", " ", " ", " ", "C">>
T_PayPadded == <<" ", "P", "a", "y", " ">>

\* the debit and credit cells: no span, an empty span, an amount, N/A, junk
DebitCells ==
    {NoneArg, TextArg(<<>>), TextArg(T_50), TextArg(T_0_00), TextArg(T_NA),
     TextArg(T_x00)}
CreditCells ==
    {NoneArg, TextArg(<<>>), TextArg(T_200), TextArg(T_NA), TextArg(T_x00)}
Narratives == {<<>>, T_Pay, T_PayPadded, T_CafShop, T_Merchant, T_A_B_C}

RowInputs ==
    {Row(5, T_15Jan24, n, "EFTPOS", d, c, T_100) :
       d \in DebitCells, c \in CreditCells, n \in Narratives}

\* the items of the payee_category_map of the account
RowRules == <<[payee |-> T_caf, category |-> "Dining"]>>

NoRow == Row(0, <<>>, <<>>, "", NoneArg, NoneArg, <<>>)
NoResult == [NoneRow EXCEPT !.k = "unset"]

RowIdle == r_row = NoRow /\ r_result = NoResult

InitRow ==
    /\ r_row \in RowInputs
    /\ r_result = NoResult

\* self.process_row(index, transaction_row) on a fresh Account
ProcessOneRow ==
    /\ r_result = NoResult
    /\ r_result' = ProcessRow(NumVarNames, r_row, RowRules)
    /\ UNCHANGED r_row

\* --------------------------------------------------------------------------
\* SpecAccount: one Account, constructed with any balances, exported once
\* --------------------------------------------------------------------------
OpeningBalances == {Dec(0, -1), Dec(2500, -1)}          \* 0.0 (the default), 250.0
AvailableBalances == {NoDec, Dec(10000, -2), NaN}       \* None, 100.00, N/A

InitAccount ==
    /\ accounts \in [{1} -> {NewAccount(1, ob, av, EndDate) :
                               ob \in OpeningBalances, av \in AvailableBalances}]
    /\ fetched = [k \in {1} |-> NotShown]
    /\ files = [k \in {1} |-> AbsentFile]
    /\ out_file = <<>>
    /\ closing_balances = [k \in {1} |-> UnsetDec]
    /\ selected = <<1>>
    /\ invoked = <<>>
    /\ raised = ""
    /\ pc = "call"
    /\ exports = <<>>

\* what one call of generate_qif on the account at key leaves behind
Generated(key, page, rows, g) ==
    /\ fetched' = [fetched EXCEPT ![key] = [shown |-> TRUE, page |-> page,
                                            rows |-> rows]]
    /\ accounts' = [accounts EXCEPT ![key] = g.acct]
    /\ files' = [files EXCEPT ![key] = g.file]
    /\ invoked' = Append(invoked, key)
    /\ raised' = g.exc

\* account.generate_qif(driver, start_date, end_date)
CallGenerateQif ==
    /\ pc = "call"
    /\ invoked = <<>>
    /\ \E page \in Pages, rows \in RowSeqs :
         Generated(1, page, rows,
                   GenerateQif(accounts[1], files[1], page, rows, pcm, EndDate))
    /\ UNCHANGED <<out_file, closing_balances, selected, pc, exports>>

\* what one evaluation of the qif property, with the csv of each Transaction,
\* leaves behind
Evaluated(key, trs, q) ==
    /\ accounts' = [accounts EXCEPT ![key] = q.acct]
    /\ exports' = Append(exports,
                         [exc |-> q.exc, text |-> q.text,
                          csv |-> [i \in 1..Len(trs) |->
                                     IF trs[i].k = "trans" THEN TransCsv(trs[i])
                                     ELSE <<>>]])

\* account.qif evaluated once more, after generate_qif was called; the
\* property has no driver in reach
EvaluateQif ==
    /\ pc = "call"
    /\ invoked # <<>>
    /\ Len(exports) < MaxExports
    /\ Evaluated(1, accounts[1].transactions, Qif(accounts[1]))
    /\ UNCHANGED <<fetched, files, out_file, closing_balances, selected, invoked,
                   raised, pc>>

\* --------------------------------------------------------------------------
\* Spec: main(), from the account list on
\* --------------------------------------------------------------------------
Keys == 1..NumAccounts

\* get_accounts: Account(trans_type, number, nick_name,
\*                       available_balance=NABNumber(..), at_date=end_date)
ListedBalances == {Dec(10000, -2), NaN}

InitBatch ==
    /\ accounts \in [Keys -> {NewAccount(1, Dec(0, -1), av, EndDate) :
                                av \in ListedBalances}]
    /\ fetched = [k \in Keys |-> NotShown]
    /\ files = [k \in Keys |-> AbsentFile]
    /\ out_file = <<>>
    /\ closing_balances = [k \in Keys |-> UnsetDec]
    /\ selected = [i \in Keys |-> i]
    /\ invoked = <<>>
    /\ raised = ""
    /\ pc = "loop"
    /\ exports = <<>>

\* lines 570-571: the value returned goes to closing_balances and to the
\* summary file; an exception leaves the loop and is caught by the handlers
\* of lines 575-579, outside it
Summarised(key, g) ==
    IF g.exc = ""
    THEN /\ closing_balances' = [closing_balances EXCEPT ![key] = g.ret]
         /\ out_file' = Append(out_file, [n |-> g.acct.nick_name, b |-> Str(g.ret)])
         /\ pc' = "loop"
    ELSE /\ pc' = "failed"
         /\ UNCHANGED <<closing_balances, out_file>>

Iterated(key, page, rows, g) ==
    Generated(key, page, rows, g) /\ Summarised(key, g)

\* the tables a session shows in a batch run: none, a single row of each
\* kind that matters to the loop, and two rows in either order
BatchRowSeqs ==
    {<<>>, <<RowShort>>, <<RowBadDate>>, <<RowDebit>>, <<RowDebit, RowCredit>>,
     <<RowNoBalance, RowCredit>>, <<RowCredit, RowNoBalance>>}

\* one turn of the loop of lines 568-571
MainIteration ==
    /\ pc = "loop"
    /\ Len(invoked) < Len(selected)
    /\ \E page \in Pages, rows \in BatchRowSeqs :
         Iterated(selected[Len(invoked) + 1], page, rows,
                  GenerateQif(accounts[selected[Len(invoked) + 1]],
                              files[selected[Len(invoked) + 1]],
                              page, rows, pcm, EndDate))
    /\ UNCHANGED <<selected, exports>>

\* the loop ran out of accounts: lines 572-574
MainFinish ==
    /\ pc = "loop"
    /\ Len(invoked) = Len(selected)
    /\ pc' = "finished"
    /\ UNCHANGED <<accounts, fetched, files, out_file, closing_balances,
                   selected, invoked, raised, exports>>

BatchIdle ==
    /\ accounts = [k \in {1} |-> NewAccount(1, Dec(0, -1), NoDec, EndDate)]
    /\ fetched = [k \in {1} |-> NotShown]
    /\ files = [k \in {1} |-> AbsentFile]
    /\ out_file = <<>>
    /\ closing_balances = [k \in {1} |-> UnsetDec]
    /\ selected = <<>>
    /\ invoked = <<>>
    /\ raised = ""
    /\ pc = "idle"
    /\ exports = <<>>

\* --------------------------------------------------------------------------
\* Specifications
\* --------------------------------------------------------------------------
Init == NumIdle /\ AddIdle /\ BatchRules /\ InitBatch /\ RowIdle /\ MonthIdle
Next ==
    \/ MainIteration /\ UNCHANGED <<numVars, addVars, catVars, rowVars, monthVars>>
    \/ MainFinish /\ UNCHANGED <<numVars, addVars, catVars, rowVars, monthVars>>
Spec == Init /\ [][Next]_vars

AccountInit == NumIdle /\ AddIdle /\ BatchRules /\ InitAccount /\ RowIdle /\ MonthIdle
AccountNext ==
    \/ CallGenerateQif /\ UNCHANGED <<numVars, addVars, catVars, rowVars, monthVars>>
    \/ EvaluateQif /\ UNCHANGED <<numVars, addVars, catVars, rowVars, monthVars>>
SpecAccount == AccountInit /\ [][AccountNext]_vars

NumberInit == InitNumber /\ AddIdle /\ CatIdle /\ BatchIdle /\ RowIdle /\ MonthIdle
NumberNext == Construct /\ UNCHANGED <<addVars, catVars, batchVars, rowVars, monthVars>>
SpecNumber == NumberInit /\ [][NumberNext]_vars

AddInit == NumIdle /\ InitAdd /\ CatIdle /\ BatchIdle /\ RowIdle /\ MonthIdle
AddNext == AddNumbers /\ UNCHANGED <<numVars, catVars, batchVars, rowVars, monthVars>>
SpecAdd == AddInit /\ [][AddNext]_vars

RowInit == NumIdle /\ AddIdle /\ CatIdle /\ BatchIdle /\ InitRow /\ MonthIdle
RowNext == ProcessOneRow /\ UNCHANGED <<numVars, addVars, catVars, batchVars, monthVars>>
SpecRow == RowInit /\ [][RowNext]_vars

MonthInit == NumIdle /\ AddIdle /\ CatIdle /\ BatchIdle /\ RowIdle /\ InitMonth
MonthNextStep == MonthProperties /\ UNCHANGED <<numVars, addVars, catVars, batchVars, rowVars>>
SpecMonth == MonthInit /\ [][MonthNextStep]_vars

CategoryInit == NumIdle /\ AddIdle /\ InitCategory /\ BatchIdle /\ RowIdle /\ MonthIdle
CategoryNext ==
    \/ LoadRules /\ UNCHANGED <<numVars, addVars, batchVars, rowVars, monthVars>>
    \/ CategoriseRow /\ UNCHANGED <<numVars, addVars, batchVars, rowVars, monthVars>>
SpecCategory == CategoryInit /\ [][CategoryNext]_vars


\* --------------------------------------------------------------------------
\* Claims
\* --------------------------------------------------------------------------
Called == invoked # <<>>
Rows1 == fetched[1].rows
Trs1 == accounts[1].transactions
WellFormed(row) == ~IsShort(row) /\ ~MalformedDate(row) /\ ~MalformedAmount(row)
Count(rows, P(_)) == Cardinality({i \in 1..Len(rows) : P(rows[i])})

\* C1: when one account of the batch fails, generate_qif is still invoked for
\* every account after it: once main has left the loop, every selected
\* account has been invoked.
C1_BatchGoesOnAfterFailure ==
    pc \in {"failed", "finished"} => Len(invoked) = Len(selected)

\* C2: generate_qif is all-or-nothing: either every row was normalised, the
\* transactions were replaced by the full result and the file holds the
\* complete ledger, or it failed, the transactions are as before the call
\* (empty) and no export file was created or truncated.
C2_AllOrNothing ==
    Called =>
        \/ /\ raised = ""
           /\ Len(Trs1) = Len(Rows1)
           /\ \A i \in 1..Len(Trs1) : Trs1[i].k = "trans"
           /\ files[1].state = "written"
           /\ Len(files[1].text.blocks) = Len(Rows1)
        \/ /\ raised # ""
           /\ Trs1 = <<>>
           /\ files[1] = AbsentFile

\* C3 (as amended): after an export that returned, closing_balance is the
\* balance of the last transaction when there is one, and the account's
\* current_balance (the opening balance it was constructed with) when there
\* is none.
C3_ClosingBalanceAfterExport ==
    (Called /\ raised = "") =>
        IF Trs1 # <<>>
        THEN accounts[1].closing_balance = Trs1[Len(Trs1)].balance
        ELSE accounts[1].closing_balance = accounts[1].current_balance

\* an account constructed with a non-zero opening balance, exported with no
\* transaction in range
C3_Witness ==
    /\ Called /\ raised = "" /\ Trs1 = <<>>
    /\ ~IsZero(accounts[1].current_balance)
    /\ files[1].state = "written"

\* C3 as stated: ... and zero when there is no transaction, whatever the
\* opening balance.
C3_ZeroWhenEmpty ==
    (Called /\ raised = "") =>
        IF Trs1 # <<>>
        THEN accounts[1].closing_balance = Trs1[Len(Trs1)].balance
        ELSE IsZero(accounts[1].closing_balance)

\* C4: after download_transactions over rows r1..rn (newest first) the
\* transactions are what process_row gave for them, in reverse order: element
\* k is that of r(n+1-k), one element per row, the last one that of r1.
C4_TransactionsReversed ==
    (Called /\ raised \in {"", "AttributeError"}) =>
        /\ Len(Trs1) = Len(Rows1)
        /\ \A k \in 1..Len(Rows1) :
               Trs1[k] = ProcessRow(accounts[1].var_names,
                                    Rows1[Len(Rows1) + 1 - k], pcm)

\* two different rows were downloaded and exported
C4_Witness ==
    /\ Called /\ raised = ""
    /\ Len(Rows1) = 2 /\ Rows1[1] # Rows1[2]
    /\ Len(Trs1) = 2 /\ Trs1[2].date = Strptime(Rows1[1].date)

\* C5: a row with fewer cells than the schema is skipped: it leaves no
\* element in the transactions, the other rows are normalised and the export
\* completes.
C5_ShortRowSkipped ==
    ( /\ Called /\ fetched[1].page = "ok"
      /\ \E i \in 1..Len(Rows1) : IsShort(Rows1[i])
      /\ \A i \in 1..Len(Rows1) : IsShort(Rows1[i]) \/ WellFormed(Rows1[i]) )
    => /\ raised = ""
       /\ files[1].state = "written"
       /\ Len(Trs1) = Count(Rows1, WellFormed)
       /\ \A i \in 1..Len(Trs1) : Trs1[i].k = "trans"

\* C6: a row whose date or amount is malformed is skipped alone: the other
\* rows are normalised and the account is exported.
C6_MalformedRowSkipped ==
    ( /\ Called /\ fetched[1].page = "ok"
      /\ \E i \in 1..Len(Rows1) :
             MalformedDate(Rows1[i]) \/ MalformedAmount(Rows1[i])
      /\ \A i \in 1..Len(Rows1) : ~IsShort(Rows1[i]) )
    => /\ raised = ""
       /\ files[1].state = "written"
       /\ Len(Trs1) = Count(Rows1, WellFormed)

Constructed == n_result # UnsetDec
Chars(s) == {s[i] : i \in 1..Len(s)}
IsSentinel(arg) == arg.t = "none" \/ Strip(arg.s) \in {<<>>, T_NA}
\* text made of letters, signs and points only, with no digit in it
Junk == {"x", "D", "R", "-", "."}
IsJunk(arg) ==
    /\ arg.t = "text"
    /\ Chars(arg.s) \cap Junk # {}
    /\ Chars(arg.s) \subseteq (Junk \cup {" "})

\* C7 (as amended): NABNumber gives the undefined value, never zero, for
\* None, the empty (or blank) string and N/A; a defined value comes only
\* from text that carries digits, and zero only from text that carries a 0;
\* text that is neither a sentinel nor a number raises InvalidOperation.
C7_SentinelsUndefined ==
    Constructed =>
        /\ IsSentinel(n_value) => n_result = NaN
        /\ IsNum(n_result) => Chars(n_value.s) \cap Digits # {}
        /\ IsZero(n_result) => "0" \in Chars(n_value.s)
        /\ IsJunk(n_value) => n_result = Raised

\* N/A was parsed
C7_Witness ==
    /\ Constructed
    /\ n_value.t = "text" /\ Strip(n_value.s) = T_NA
    /\ n_result = NaN

\* C7 as stated: parsing never raises, unparseable text gives NaN.
C7_NeverRaises == Constructed => n_result # Raised

\* C8: a + b is undefined when a or b is, and otherwise the exact sum of the
\* two amounts, cents included.
C8_ExactSum ==
    n_sum # UnsetDec =>
        IF IsNaN(n_lhs) \/ IsNaN(n_rhs) THEN IsNaN(n_sum)
        ELSE IsNum(n_sum) /\ NumEq(n_sum, Dec(n_lhs.c + n_rhs.c, -2))

\* the rules of a file in the order of its lines
RulesInOrder(lines) == SelectSeq(lines, LAMBDA l : ~l.blank)

OneFile == rule_files.specific = NoFile \/ rule_files.shared = NoFile

\* C9: the category is that of the earliest rule, in the order of the rule
\* file, that matches the payee, else of the earliest that matches the memo,
\* else Unspecified (shown where a single rule file exists).
C9_FirstMatchInFileOrder ==
    (category # "" /\ OneFile) =>
        category = Categorise(RulesInOrder(LinesRead(rule_files)),
                              cat_field.payee, cat_field.memo)

ChosenFile ==
    IF rule_files.specific # NoFile THEN rule_files.specific
    ELSE IF rule_files.shared # NoFile THEN rule_files.shared
    ELSE <<>>

\* C10: the rules come from one file only: the account's own file when it
\* exists, else the shared file, else none.
C10_AtMostOneFile ==
    pcm # NotLoaded =>
        {pcm[i] : i \in 1..Len(pcm)}
          = {[payee |-> k, category |-> DictValue(ChosenFile, k)] :
               k \in DictKeys(ChosenFile)}

\* what generate_qif's own evaluation of the property gave, as far as it shows
AgreesWithFirst(e) ==
    /\ files[1].state = "written" => e.exc = "" /\ e.text = files[1].text
    /\ raised = "AttributeError" => e.exc = "AttributeError"

\* C11: evaluating Account.qif (and each Transaction's csv) again gives what
\* the evaluation before it gave, the same text or the same exception, the
\* first of them what generate_qif wrote to the file; it leaves the
\* transactions as they were and asks nothing of the session.
C11_ReExportIdempotent ==
    [][Len(exports') > Len(exports) =>
         /\ accounts'[1].transactions = accounts[1].transactions
         /\ fetched' = fetched /\ invoked' = invoked
         /\ IF exports = <<>>
            THEN AgreesWithFirst(exports'[1])
            ELSE exports'[Len(exports')] = exports[Len(exports)]]_vars

\* an account with two transactions, exported to its file and evaluated
\* twice more
C11_Witness ==
    /\ Len(exports) = 2 /\ exports[2].exc = ""
    /\ Len(Trs1) = 2 /\ files[1].state = "written"
    /\ Len(exports[2].text.blocks) = 2 /\ Len(exports[2].csv) = 2

Processed == r_result # NoResult
\* the cell is absent, empty, the sentinel N/A or a plain amount
CellReads(cell) == cell.t = "none" \/ NABNumber(cell) # Raised
Negated(d) == IF d.c = 0 THEN NegZero(d.e) ELSE Dec(-d.c, d.e)
Defined(cell) == cell.t = "text" /\ IsNum(NABNumber(cell))

\* C13: the net amount of the transaction of a row is the negated debit
\* when the debit text reads as a defined value, else the credit when that
\* is defined, else zero (rows whose cells all read, with a one-part
\* narrative).
C13_NetAmount ==
    ( /\ Processed
      /\ CellReads(r_row.debit) /\ CellReads(r_row.credit)
      /\ ~HasSpaceRun(Strip(r_row.narrative)) )
    => /\ r_result.k = "trans"
       /\ r_result.amount =
            IF Defined(r_row.debit) THEN Negated(NABNumber(r_row.debit))
            ELSE IF Defined(r_row.credit) THEN NABNumber(r_row.credit)
            ELSE Dec(0, -2)

\* the text after the last run of two or more spaces, or all of it
AfterLastRun(s) ==
    LET runs == {i \in 1..(Len(s) - 1) : s[i] = " " /\ s[i + 1] = " "}
        last == CHOOSE i \in runs : \A j \in runs : j <= i
    IN IF runs = {} THEN s ELSE SubSeq(s, last + 2, Len(s))

\* C14: process_row returns a Transaction whose memo is the text of the
\* detail blob after its last run of two or more spaces, or the whole blob
\* when it has none (rows whose amounts are absent or plain amounts).
C14_MemoAfterLastRun ==
    ( /\ Processed
      /\ r_row.debit.t = "none" \/ Defined(r_row.debit)
      /\ CellReads(r_row.credit) )
    => /\ r_result.k = "trans"
       /\ r_result.memo = AfterLastRun(Strip(r_row.narrative))

Read == m_props # NoProps
\* a <= b for two dates
Le(a, b) ==
    \/ a.y < b.y
    \/ a.y = b.y /\ a.m < b.m
    \/ a.y = b.y /\ a.m = b.m /\ a.d <= b.d
FirstOfFollowing(dt) ==
    IF dt.m < 12 THEN Date(dt.y, dt.m + 1, 1) ELSE Date(dt.y + 1, 1, 1)
FirstMonth(dt) == dt.y = 1 /\ dt.m = 1
LastMonth(dt) == dt.y = 9999 /\ dt.m = 12
WithinMonth ==
    /\ m_props.start.ok /\ m_props.end.ok
    /\ Le(m_props.start, m_date) /\ Le(m_date, m_props.end)
EndBeforeNext ==
    /\ m_props.end.ok
    /\ NextDay(m_props.end) = m_props.next
    /\ m_props.next = FirstOfFollowing(m_date)
EndPrevBeforeStart ==
    /\ m_props.end_prev.ok
    /\ NextDay(m_props.end_prev) = m_props.start

\* C15 (as amended): for every date from 0001-02-01 to 9999-11-30,
\* month_start <= d <= month_end, month_end plus one day is month_next, the
\* first day of the following month, and month_end_prev plus one day is
\* month_start. In January of year 1 month_end_prev (and month_prev) is out
\* of range and the rest holds; in December 9999 month_next and month_end are
\* out of range and month_end_prev plus one day is still month_start.
C15_MonthBounds ==
    Read =>
        /\ ~LastMonth(m_date) => WithinMonth /\ EndBeforeNext
        /\ ~FirstMonth(m_date) => EndPrevBeforeStart
        /\ FirstMonth(m_date) =>
              m_props.end_prev = DateOverflow /\ m_props.prev = DateOverflow
        /\ LastMonth(m_date) =>
              m_props.next = DateOverflow /\ m_props.end = DateOverflow

\* the last day of February of a leap year was found from a day within it
C15_Witness ==
    /\ Read
    /\ m_date = Date(2024, 2, 10)
    /\ m_props.end = Date(2024, 2, 29) /\ m_props.next = Date(2024, 3, 1)

\* C15 as stated: the three relations hold for every date.
C15_EveryDate == Read => WithinMonth /\ EndBeforeNext /\ EndPrevBeforeStart

\* C12: in a ledger export that was written, the closing balance line reads
\* 0.00 when Account.closing_balance is undefined, and the field stays
\* undefined; when it is defined the line reads back as that very value, so
\* it is 0.00 only for a closing balance of zero.
C12_ClosingLineFallback ==
    (Called /\ files[1].state = "written") =>
        IF IsNaN(accounts[1].closing_balance)
        THEN files[1].text.cb = T_0_00
        ELSE /\ IsNum(accounts[1].closing_balance)
             /\ DecimalNew(files[1].text.cb) = accounts[1].closing_balance
             /\ files[1].text.cb = T_0_00 => IsZero(accounts[1].closing_balance)

\* the last transaction exported carries no balance
C12_Witness ==
    /\ Called /\ files[1].state = "written"
    /\ Trs1 # <<>> /\ IsNaN(Trs1[Len(Trs1)].balance)
    /\ IsNaN(accounts[1].closing_balance)
    /\ files[1].text.cb = T_0_00

\* two amounts are the same value: both undefined, or equal numbers
SameValue(a, b) ==
    \/ IsNaN(a) /\ IsNaN(b)
    \/ IsNum(a) /\ IsNum(b) /\ NumEq(a, b)

\* the account of the i-th line of the summary file
LineKey(i) == invoked[i]
\* the value the i-th line of the summary file shows
LineValue(i) == DecimalNew(out_file[i].b)
\* the value the closing balance line of the ledger of account k shows
LedgerValue(k) == DecimalNew(files[k].text.cb)

\* C16 (as amended): for every account with a line in the summary file, the
\* line shows the value generate_qif returned, which is the value held in
\* Account.closing_balance after the export; the ledger shows the same value
\* unless it is undefined, where the summary shows NaN and the ledger 0.00.
C16_SummaryMatchesAccount ==
    \A i \in 1..Len(out_file) :
        /\ files[LineKey(i)].state = "written"
        /\ SameValue(LineValue(i), closing_balances[LineKey(i)])
        /\ SameValue(LineValue(i), accounts[LineKey(i)].closing_balance)
        /\ IF IsNaN(accounts[LineKey(i)].closing_balance)
           THEN files[LineKey(i)].text.cb = T_0_00
           ELSE SameValue(LineValue(i), LedgerValue(LineKey(i)))

\* the batch finished with an account without transactions and one whose
\* last transaction carries no balance
C16_Witness ==
    /\ pc = "finished" /\ Len(out_file) = 2
    /\ accounts[LineKey(1)].transactions = <<>>
    /\ IsNaN(accounts[LineKey(2)].closing_balance)

\* C16 as stated: the summary line, the ledger and Account.closing_balance
\* show the same value, an undefined last balance included.
C16_SameEverywhere ==
    \A i \in 1..Len(out_file) :
        /\ SameValue(LineValue(i), accounts[LineKey(i)].closing_balance)
        /\ SameValue(LineValue(i), LedgerValue(LineKey(i)))

====
